---- MODULE Spec2Model ----
(***************************************************************************)
(* A model of rust-changepoint: the two-heap running median (Heaps), the   *)
(* EDM-X scan (edm_x / inner_edm_x_loop / EDMX::find_candidate) and the    *)
(* fork-join permutation test (permutation_test).                          *)
(*                                                                         *)
(* Numbers.  The element type T of the library is any HeapNum; the tests   *)
(* use NonNaN<f64>.  Observations are drawn from small even integers, on   *)
(* which every sum, difference and the halving in get_median are exact in  *)
(* f64, so they are computed here with integer arithmetic.  The weighted    *)
(* statistic i*(j-i)/j * diff^2 is kept as an exact fraction [num, den].   *)
(*                                                                         *)
(* The specifications of the module:                                      *)
(*   HeapSpec  pushes values into one Heaps and reads its median;          *)
(*   ScanSpec  runs EDMX::find_candidate step by step on one input;        *)
(*   Spec      runs permutation_test with an arbitrary detector;           *)
(*   LiveSpec  is Spec on one input, its steps taken fairly;               *)
(*   CmpSpec   compares three BestCandidates pairwise;                     *)
(*   FloatSpec wraps two floats as NonNaN and applies one operator.        *)
(***************************************************************************)
EXTENDS Integers, Sequences, FiniteSets, TLC

\* ---------------------------------------------------------------- bounds
MaxVal == 2            \* observations are drawn from {0, 2, .., 2*MaxVal}
MaxPush == 5           \* HeapSpec: number of values pushed
MaxLen == 5            \* ScanSpec: length of the observation sequence
MaxDelta == 2          \* ScanSpec: delta is drawn from 1..MaxDelta
MaxPermutations == 3   \* Spec: num_permutations is drawn from 0..MaxPermutations
MaxStat == 1           \* Spec: the detector's statistics are drawn from 0..MaxStat
MaxLoc == 1            \* Spec: the detector's locations are drawn from 0..MaxLoc
MaxNum == 2            \* CmpSpec: numerators of the statistics, 0..MaxNum
MaxDen == 2            \* CmpSpec: denominators of the statistics, 1..MaxDen
MantissaBits == 1      \* FloatSpec: stored mantissa bits of the float format F
MaxExp == 1            \* FloatSpec: exponents of F's normal values, 0..MaxExp

Values == {2 * k : k \in 0..MaxVal}

VARIABLES
    \* HeapSpec
    heaps,             \* the Heaps<T> under test
    pushed,            \* the values given to add_to_heaps so far, in order
    \* ScanSpec
    z,                 \* observations: &[T]
    delta,             \* EDMX.delta
    pc,                \* position in find_candidate / edm_x / inner_edm_x_loop
    i,                 \* edm_x: the enumerate() index of the outer iterator
    jmi,               \* inner_edm_x_loop: the enumerate() index
    left_heaps,        \* edm_x: the scan state
    right_heaps,       \* inner_edm_x_loop: the scan state
    left_median,       \* inner_edm_x_loop: argument left_median
    inner_max,         \* inner_edm_x_loop: running value of Iterator::max
    outer_max,         \* edm_x: running value of Iterator::max
    result,            \* what find_candidate returned
    scored,            \* the (i, j) for which a candidate was built so far
    \* Spec
    observations,      \* permutation_test: observations
    detector,          \* permutation_test: algorithm, as input |-> outcome
    num_permutations,  \* permutation_test: num_permutations
    pt_pc,             \* position in permutation_test
    true_candidate,    \* BestCandidate { true_statistic, true_location }
    permutations,      \* Vec<PermutationIteration<T>>
    rng_draws,         \* number of rng.shuffle calls made on the random source
    scans,             \* scans[k]: detector calls made on permutation k so far
    tasks,             \* live do_permutation_iteration invocations
    pt_result,         \* what permutation_test returned
    \* CmpSpec
    cmp_in,            \* three BestCandidate values a, b, c
    cmp_out,           \* the Orderings and the == computed on them
    \* FloatSpec
    float_raw,         \* two values of the float type F
    non_nan,           \* NonNaN::new of each
    float_pc,          \* "start", "wrapped" or "done"
    float_op,          \* the operator applied
    float_out          \* what the operator returned

heap_vars == <<heaps, pushed>>
scan_vars == <<z, delta, pc, i, jmi, left_heaps, right_heaps, left_median,
               inner_max, outer_max, result, scored>>
pt_vars == <<observations, detector, num_permutations, pt_pc, true_candidate,
             permutations, rng_draws, scans, tasks, pt_result>>
cmp_vars == <<cmp_in, cmp_out>>
float_vars == <<float_raw, non_nan, float_pc, float_op, float_out>>
vars == <<heap_vars, scan_vars, pt_vars, cmp_vars, float_vars>>

\* ------------------------------------------------------------- utilities
\* Option<X>: None is <<>>, Some(x) is <<x>>.
None == <<>>
Some(x) == <<x>>

RECURSIVE SortedInsert(_, _)
\* s is ascending; the result is s with v added, ascending.
SortedInsert(s, v) ==
    IF s = <<>> THEN <<v>>
    ELSE IF v <= Head(s) THEN <<v>> \o s
    ELSE <<Head(s)>> \o SortedInsert(Tail(s), v)

RECURSIVE Sorted(_)
Sorted(s) == IF s = <<>> THEN <<>> ELSE SortedInsert(Sorted(Tail(s)), Head(s))

\* The sort-based reference median: the middle element for an odd count,
\* the average of the two middle elements for an even count (s non-empty,
\* values even, so the average is an integer).
ReferenceMedian(s) ==
    LET t == Sorted(s)
        n == Len(s)
    IN  IF n % 2 = 1 THEN t[(n + 1) \div 2]
        ELSE (t[n \div 2] + t[n \div 2 + 1]) \div 2

\* ------------------------------------------------------- heap.rs, Heaps
\* A BinaryHeap is kept as the ascending sequence of its elements: only
\* push, peek and pop are used, and they depend on the multiset alone.
BinaryHeapPush(h, item) == SortedInsert(h, item)

\* MinHeapItem reverses the order of T, so the greatest MinHeapItem, which
\* BinaryHeap::peek returns, carries the smallest T.
MinHeapPeek(h) == h[1]
MinHeapPop(h) == Tail(h)

\* MaxHeapItem keeps the order of T.
MaxHeapPeek(h) == h[Len(h)]
MaxHeapPop(h) == SubSeq(h, 1, Len(h) - 1)

HeapsNew == [min_heap |-> <<>>, max_heap |-> <<>>, heap_size_info |-> "Empty"]

\* A Heaps whose method hit unimplemented!() or a failing expect().
HeapsPanicked == [min_heap |-> <<>>, max_heap |-> <<>>, heap_size_info |-> "Panicked"]

\* push_to_heap without the move that rebalances an already bigger heap.
push_to_heap_no_rebalance(h, kind, item) ==
    CASE h.heap_size_info = "Empty" /\ kind = "FirstPush" ->
            [min_heap |-> BinaryHeapPush(h.min_heap, item),
             max_heap |-> BinaryHeapPush(h.max_heap, item),
             heap_size_info |-> "EqualSizes"]
      [] h.heap_size_info = "EqualSizes" /\ kind = "MinHeap" ->
            [h EXCEPT !.min_heap = BinaryHeapPush(@, item),
                      !.heap_size_info = "MinHeapBigger"]
      [] h.heap_size_info = "EqualSizes" /\ kind = "MaxHeap" ->
            [h EXCEPT !.max_heap = BinaryHeapPush(@, item),
                      !.heap_size_info = "MaxHeapBigger"]
      [] h.heap_size_info = "MaxHeapBigger" /\ kind = "MinHeap" ->
            [h EXCEPT !.min_heap = BinaryHeapPush(@, item),
                      !.heap_size_info = "EqualSizes"]
      [] h.heap_size_info = "MinHeapBigger" /\ kind = "MaxHeap" ->
            [h EXCEPT !.max_heap = BinaryHeapPush(@, item),
                      !.heap_size_info = "EqualSizes"]
      [] h.heap_size_info = "MinHeapBigger" /\ kind = "MinHeap" ->
            [h EXCEPT !.min_heap = BinaryHeapPush(@, item),
                      !.heap_size_info = "EqualSizes"]
      [] h.heap_size_info = "MaxHeapBigger" /\ kind = "MaxHeap" ->
            [h EXCEPT !.max_heap = BinaryHeapPush(@, item),
                      !.heap_size_info = "EqualSizes"]
      [] OTHER -> HeapsPanicked

push_to_heap(h, kind, item) ==
    CASE h.heap_size_info = "Empty" /\ kind = "FirstPush" ->
            [min_heap |-> BinaryHeapPush(h.min_heap, item),
             max_heap |-> BinaryHeapPush(h.max_heap, item),
             heap_size_info |-> "EqualSizes"]
      [] h.heap_size_info = "EqualSizes" /\ kind = "MinHeap" ->
            [h EXCEPT !.min_heap = BinaryHeapPush(@, item),
                      !.heap_size_info = "MinHeapBigger"]
      [] h.heap_size_info = "EqualSizes" /\ kind = "MaxHeap" ->
            [h EXCEPT !.max_heap = BinaryHeapPush(@, item),
                      !.heap_size_info = "MaxHeapBigger"]
      [] h.heap_size_info = "MaxHeapBigger" /\ kind = "MinHeap" ->
            [h EXCEPT !.min_heap = BinaryHeapPush(@, item),
                      !.heap_size_info = "EqualSizes"]
      [] h.heap_size_info = "MinHeapBigger" /\ kind = "MaxHeap" ->
            [h EXCEPT !.max_heap = BinaryHeapPush(@, item),
                      !.heap_size_info = "EqualSizes"]
      [] h.heap_size_info = "MinHeapBigger" /\ kind = "MinHeap" ->
            LET pushed_min == BinaryHeapPush(h.min_heap, item)
            IN  IF pushed_min = <<>> THEN HeapsPanicked
                ELSE [min_heap |-> MinHeapPop(pushed_min),
                      max_heap |-> BinaryHeapPush(h.max_heap, MinHeapPeek(pushed_min)),
                      heap_size_info |-> "EqualSizes"]
      [] h.heap_size_info = "MaxHeapBigger" /\ kind = "MaxHeap" ->
            LET pushed_max == BinaryHeapPush(h.max_heap, item)
            IN  IF pushed_max = <<>> THEN HeapsPanicked
                ELSE [min_heap |-> BinaryHeapPush(h.min_heap, MaxHeapPeek(pushed_max)),
                      max_heap |-> MaxHeapPop(pushed_max),
                      heap_size_info |-> "EqualSizes"]
      [] OTHER -> HeapsPanicked

\* add_to_heaps that wraps every value as a FirstPush.
add_to_heaps_first_push(h, value) == push_to_heap(h, "FirstPush", value)

\* add_to_heaps that compares with the top of max_heap, the lower half.
add_to_heaps_lower_top(h, value) ==
    IF h.heap_size_info = "Empty" THEN push_to_heap(h, "FirstPush", value)
    ELSE IF h.max_heap = <<>> THEN HeapsPanicked
    ELSE IF value <= MaxHeapPeek(h.max_heap) THEN push_to_heap(h, "MaxHeap", value)
    ELSE push_to_heap(h, "MinHeap", value)

\* add_to_heaps with the comparison turned round.
add_to_heaps_reversed(h, value) ==
    IF h.heap_size_info = "Empty" THEN push_to_heap(h, "FirstPush", value)
    ELSE IF h.min_heap = <<>> THEN HeapsPanicked
    ELSE IF value >= MinHeapPeek(h.min_heap) THEN push_to_heap(h, "MaxHeap", value)
    ELSE push_to_heap(h, "MinHeap", value)

add_to_heaps(h, value) ==
    IF h.heap_size_info = "Empty" THEN push_to_heap(h, "FirstPush", value)
    ELSE IF h.min_heap = <<>> THEN HeapsPanicked
    ELSE IF value <= MinHeapPeek(h.min_heap) THEN push_to_heap(h, "MaxHeap", value)
    ELSE push_to_heap(h, "MinHeap", value)

\* get_median panics on an Empty pair (unimplemented!) and when the heap it
\* peeks is empty (expect).
get_median_panics(h) ==
    CASE h.heap_size_info = "MinHeapBigger" -> h.min_heap = <<>>
      [] h.heap_size_info = "MaxHeapBigger" -> h.max_heap = <<>>
      [] h.heap_size_info = "EqualSizes" -> h.min_heap = <<>> \/ h.max_heap = <<>>
      [] OTHER -> TRUE

\* get_median that returns max_heap's top when the sizes are equal.
get_median_no_average(h) ==
    CASE h.heap_size_info = "MinHeapBigger" -> MinHeapPeek(h.min_heap)
      [] OTHER -> MaxHeapPeek(h.max_heap)

\* T::one() + T::one() is 2; the operands are even, so the quotient is exact.
get_median(h) ==
    CASE h.heap_size_info = "MinHeapBigger" -> MinHeapPeek(h.min_heap)
      [] h.heap_size_info = "MaxHeapBigger" -> MaxHeapPeek(h.max_heap)
      [] OTHER -> (MinHeapPeek(h.min_heap) + MaxHeapPeek(h.max_heap)) \div 2

\* ------------------------------------------------------ best_candidate.rs
\* A statistic is the exact fraction num/den, den > 0.
StatCmp(a, b) ==
    LET l == a.num * b.den
        r == b.num * a.den
    IN  IF l < r THEN -1 ELSE IF l > r THEN 1 ELSE 0

\* The order a derived Ord would give: on equal statistics the larger
\* location is the greater.
best_candidate_cmp_derived(a, b) ==
    LET c == StatCmp(a.statistic, b.statistic)
    IN  IF c /= 0 THEN c
        ELSE IF a.location < b.location THEN -1
        ELSE IF a.location > b.location THEN 1
        ELSE 0

\* An order that looks at the statistic only.
best_candidate_cmp_statistic(a, b) == StatCmp(a.statistic, b.statistic)

\* Ord for BestCandidate: by statistic; on equal statistics the order of the
\* locations, reversed.
best_candidate_cmp(a, b) ==
    LET c == StatCmp(a.statistic, b.statistic)
    IN  IF c /= 0 THEN c
        ELSE IF a.location < b.location THEN 1
        ELSE IF a.location > b.location THEN -1
        ELSE 0

\* One step of Iterator::max: the accumulator is kept only when it compares
\* Greater than the next element.
iter_max(acc, x) ==
    IF acc = None THEN Some(x)
    ELSE IF best_candidate_cmp(acc[1], x) = 1 THEN acc
    ELSE Some(x)

\* ------------------------------------------------------------- edm_x.rs
\* The candidate with the inner index stored as its location.
candidate_at_inner(lm, rm, ii, j) ==
    LET median_diff == lm - rm
        median_diff_squared == median_diff * median_diff
    IN  [statistic |-> [num |-> ii * (j - ii) * median_diff_squared, den |-> j],
         location |-> j]

\* The candidate built in inner_edm_x_loop for the pair (i, j):
\* stat_weight = i*(j-i)/j, statistic = stat_weight * median_diff^2.
candidate_at(lm, rm, ii, j) ==
    LET median_diff == lm - rm
        median_diff_squared == median_diff * median_diff
    IN  [statistic |-> [num |-> ii * (j - ii) * median_diff_squared, den |-> j],
         location |-> ii]

\* The guard with the factor two dropped.
not_enough_values_delta(len, d) == len < d

\* The guard of EDMX::find_candidate.
not_enough_values(len, d) == len < d * 2

NotEnoughValues(len, d) ==
    [kind |-> "NotEnoughValues", collection_len |-> len, delta |-> d]

ScanIdle ==
    /\ pc = "start" /\ i = 0 /\ jmi = 0
    /\ left_heaps = None /\ right_heaps = None /\ left_median = 0
    /\ inner_max = None /\ outer_max = None /\ result = None
    /\ scored = {}

ScanInit ==
    /\ z \in UNION {[1..n -> Values] : n \in 0..MaxLen}
    /\ delta \in 1..MaxDelta
    /\ ScanIdle

\* EDMX::find_candidate up to the call of edm_x and the creation of left_heaps.
FindCandidate ==
    /\ pc = "start"
    /\ IF not_enough_values(Len(z), delta)
       THEN /\ result' = Some([ok |-> FALSE, error |-> NotEnoughValues(Len(z), delta)])
            /\ pc' = "returned"
            /\ UNCHANGED left_heaps
       ELSE /\ left_heaps' = Some(HeapsNew)
            /\ pc' = "outer"
            /\ UNCHANGED result
    /\ UNCHANGED <<z, delta, i, jmi, right_heaps, left_median, inner_max, outer_max,
                   scored>>

\* The scan closure handing the left pair's content to the inner loop as
\* its right pair.
OuterStep_shared_right ==
    /\ pc = "outer"
    /\ i < Len(z) - delta
    /\ LET h == add_to_heaps(left_heaps[1], z[i + 1])
       IN  IF h.heap_size_info = "Panicked"
           THEN /\ pc' = "panicked"
                /\ UNCHANGED <<i, jmi, left_heaps, right_heaps, left_median, inner_max>>
           ELSE IF i < delta
           THEN /\ left_heaps' = Some(h)
                /\ i' = i + 1
                /\ UNCHANGED <<pc, jmi, right_heaps, left_median, inner_max>>
           ELSE IF get_median_panics(h)
           THEN /\ pc' = "panicked"
                /\ left_heaps' = Some(h)
                /\ UNCHANGED <<i, jmi, right_heaps, left_median, inner_max>>
           ELSE /\ left_heaps' = Some(h)
                /\ left_median' = get_median(h)
                /\ right_heaps' = Some(h)
                /\ jmi' = 0
                /\ inner_max' = None
                /\ pc' = "inner"
                /\ UNCHANGED i
    /\ UNCHANGED <<z, delta, outer_max, result, scored>>

\* edm_x: the scan closure on item i of z.iter().take(z.len() - delta).
OuterStep ==
    /\ pc = "outer"
    /\ i < Len(z) - delta
    /\ LET h == add_to_heaps(left_heaps[1], z[i + 1])
       IN  IF h.heap_size_info = "Panicked"
           THEN /\ pc' = "panicked"
                /\ UNCHANGED <<i, jmi, left_heaps, right_heaps, left_median, inner_max>>
           ELSE IF i < delta
           THEN /\ left_heaps' = Some(h)
                /\ i' = i + 1
                /\ UNCHANGED <<pc, jmi, right_heaps, left_median, inner_max>>
           ELSE IF get_median_panics(h)
           THEN /\ pc' = "panicked"
                /\ left_heaps' = Some(h)
                /\ UNCHANGED <<i, jmi, right_heaps, left_median, inner_max>>
           ELSE /\ left_heaps' = Some(h)
                /\ left_median' = get_median(h)
                /\ right_heaps' = Some(HeapsNew)
                /\ jmi' = 0
                /\ inner_max' = None
                /\ pc' = "inner"
                /\ UNCHANGED i
    /\ UNCHANGED <<z, delta, outer_max, result, scored>>

\* The scan closure building a candidate one item early.
InnerStep_early ==
    /\ pc = "inner"
    /\ jmi < Len(z) - i
    /\ LET h == add_to_heaps(right_heaps[1], z[i + jmi + 1])
       IN  IF h.heap_size_info = "Panicked"
           THEN /\ pc' = "panicked"
                /\ UNCHANGED <<jmi, right_heaps, inner_max, scored>>
           ELSE IF jmi < delta - 1
           THEN /\ right_heaps' = Some(h)
                /\ jmi' = jmi + 1
                /\ UNCHANGED <<pc, inner_max, scored>>
           ELSE IF get_median_panics(h)
           THEN /\ pc' = "panicked"
                /\ right_heaps' = Some(h)
                /\ UNCHANGED <<jmi, inner_max, scored>>
           ELSE /\ right_heaps' = Some(h)
                /\ inner_max' = iter_max(inner_max,
                                    candidate_at(left_median, get_median(h), i, jmi + i))
                /\ scored' = scored \cup {<<i, jmi + i>>}
                /\ jmi' = jmi + 1
                /\ UNCHANGED pc
    /\ UNCHANGED <<z, delta, i, left_heaps, left_median, outer_max, result>>

\* inner_edm_x_loop: the scan closure on item jmi of z[i..].
InnerStep ==
    /\ pc = "inner"
    /\ jmi < Len(z) - i
    /\ LET h == add_to_heaps(right_heaps[1], z[i + jmi + 1])
       IN  IF h.heap_size_info = "Panicked"
           THEN /\ pc' = "panicked"
                /\ UNCHANGED <<jmi, right_heaps, inner_max, scored>>
           ELSE IF jmi < delta
           THEN /\ right_heaps' = Some(h)
                /\ jmi' = jmi + 1
                /\ UNCHANGED <<pc, inner_max, scored>>
           ELSE IF get_median_panics(h)
           THEN /\ pc' = "panicked"
                /\ right_heaps' = Some(h)
                /\ UNCHANGED <<jmi, inner_max, scored>>
           ELSE /\ right_heaps' = Some(h)
                /\ inner_max' = iter_max(inner_max,
                                    candidate_at(left_median, get_median(h), i, jmi + i))
                /\ scored' = scored \cup {<<i, jmi + i>>}
                /\ jmi' = jmi + 1
                /\ UNCHANGED pc
    /\ UNCHANGED <<z, delta, i, left_heaps, left_median, outer_max, result>>

\* inner_edm_x_loop: z[i..] is exhausted; max().expect(..) and the return
\* into the outer Iterator::max.
InnerReturn ==
    /\ pc = "inner"
    /\ jmi = Len(z) - i
    /\ IF inner_max = None
       THEN /\ pc' = "panicked"
            /\ UNCHANGED <<i, right_heaps, outer_max>>
       ELSE /\ outer_max' = iter_max(outer_max, inner_max[1])
            /\ right_heaps' = None
            /\ i' = i + 1
            /\ pc' = "outer"
    /\ UNCHANGED <<z, delta, jmi, left_heaps, left_median, inner_max, result, scored>>

\* edm_x: the outer iterator is exhausted; max().expect(..) and the Ok(..)
\* of find_candidate.
OuterReturn ==
    /\ pc = "outer"
    /\ i = Len(z) - delta
    /\ IF outer_max = None
       THEN /\ pc' = "panicked"
            /\ UNCHANGED result
       ELSE /\ result' = Some([ok |-> TRUE, candidate |-> outer_max[1]])
            /\ pc' = "returned"
    /\ UNCHANGED <<z, delta, i, jmi, left_heaps, right_heaps, left_median,
                   inner_max, outer_max, scored>>

\* --------------------------------------------------------------- HeapSpec
HeapIdle == heaps = HeapsNew /\ pushed = <<>>

\* One call of add_to_heaps on the pair under test.
Push ==
    /\ Len(pushed) < MaxPush
    /\ heaps.heap_size_info /= "Panicked"
    /\ \E v \in Values :
          /\ heaps' = add_to_heaps(heaps, v)
          /\ pushed' = Append(pushed, v)

\* ---------------------------------------------------- permutation_test.rs
\* errors.rs: an Error is its kind and the error it wraps, if any.
\* payload is what the kind carries.
Error(kind) == [kind |-> kind, cause |-> "none", payload |-> <<>>]
NoError == Error("none")

\* The error a detector returns on an input.  The detector is any
\* ChangePointDetector<T>, so its errors are kept apart by the input they
\* were returned for: no two failures are equal unless their inputs are.
DetectorError(input) == [kind |-> "Msg", cause |-> "none", payload |-> input]

\* Result<BestCandidate<T>>
NoCandidate == [statistic |-> 0, location |-> 0]
OkCandidate(s, l) ==
    [ok |-> TRUE, candidate |-> [statistic |-> s, location |-> l], error |-> NoError]
ErrCandidate(e) == [ok |-> FALSE, candidate |-> NoCandidate, error |-> e]

\* Result<f64>
OkF(v) == [ok |-> TRUE, value |-> v, error |-> NoError]
ErrF(e) == [ok |-> FALSE, value |-> 0, error |-> e]

\* Result<PermutationTestResult>; p_value is the f64 quotient num/den, kept
\* as the pair.
OkTest(num, den, index) ==
    [ok |-> TRUE, p_value |-> [num |-> num, den |-> den],
     changepoint_index |-> index, error |-> NoError]
ErrTest(e) ==
    [ok |-> FALSE, p_value |-> [num |-> 0, den |-> 1],
     changepoint_index |-> 0, error |-> e]

\* Every order rng.shuffle can leave a copy of s in.
PermutationsOf(s) ==
    LET n == Len(s)
        Bijections == {f \in [1..n -> 1..n] : \A a, b \in 1..n : a /= b => f[a] /= f[b]}
    IN  {[k \in 1..n |-> s[f[k]]] : f \in Bijections}

\* The inputs of the permutation test.
ObsInputs == {<<2, 4>>, <<4, 4, 2>>}

\* The detectors on the orders of obs: a detector fails (-1) or returns a
\* statistic in 0..MaxStat on each order; it reports location loc on obs
\* itself and the next location on every other order, whose location
\* run_algorithm_on_permutation drops unread.
DetectorsOn(obs) ==
    {[input \in PermutationsOf(obs) |->
         IF stat[input] < 0 THEN ErrCandidate(DetectorError(input))
         ELSE OkCandidate(stat[input],
                          IF input = obs THEN loc ELSE (loc + 1) % (MaxLoc + 1))] :
        stat \in [PermutationsOf(obs) -> -1..MaxStat], loc \in 0..MaxLoc}

\* detector.find_candidate(input)
find_candidate(det, input) == det[input]

\* A conversion that wraps the propagated error in a new one.
from_error_wrapped(e) ==
    [kind |-> "PermutationScanFailed", cause |-> e.kind, payload |-> e.payload]

\* The conversion `?` applies to an error it propagates: From<Error> for Error.
from_error(e) == e

\* The indicator with the comparison turned strict: a tie counts as 1.
run_algorithm_on_permutation_tie(det, true_statistic, permutation) ==
    LET r == det[permutation]
    IN  IF ~r.ok THEN ErrF(r.error)
        ELSE IF r.candidate.statistic < true_statistic THEN OkF(0)
        ELSE OkF(1)

run_algorithm_on_permutation(det, true_statistic, permutation) ==
    LET r == find_candidate(det, permutation)
    IN  IF ~r.ok THEN ErrF(from_error(r.error))
        ELSE IF r.candidate.statistic <= true_statistic THEN OkF(0)
        ELSE OkF(1)

\* A best-effort closure: a failed permutation is skipped.
fold_step_skip(num_failures, permutation) ==
    IF ~num_failures.ok THEN num_failures
    ELSE IF permutation.greater_than_truth = None
         THEN ErrF(Error("PermutationNeverRan"))
    ELSE IF ~permutation.greater_than_truth[1].ok THEN num_failures
    ELSE OkF(num_failures.value + permutation.greater_than_truth[1].value)

\* The closure folded over the permutations in permutation_test.
fold_step(num_failures, permutation) ==
    IF ~num_failures.ok THEN ErrF(from_error(num_failures.error))
    ELSE IF permutation.greater_than_truth = None
         THEN ErrF(Error("PermutationNeverRan"))
    ELSE IF ~permutation.greater_than_truth[1].ok
         THEN ErrF(from_error(permutation.greater_than_truth[1].error))
    ELSE OkF(num_failures.value + permutation.greater_than_truth[1].value)

RECURSIVE fold_last_error(_, _)
\* A fold that lets a later failure replace an earlier one.
fold_last_error(perms, init) ==
    IF perms = <<>> THEN init
    ELSE LET gtt == Head(perms).greater_than_truth
         IN  fold_last_error(Tail(perms),
                 IF gtt /= None /\ ~gtt[1].ok THEN ErrF(gtt[1].error)
                 ELSE fold_step(init, Head(perms)))

RECURSIVE fold(_, _)
\* permutations.into_iter().fold(init, fold_step)
fold(perms, init) ==
    IF perms = <<>> THEN init ELSE fold(Tail(perms), fold_step(init, Head(perms)))

\* The tail with the true sample counted in the numerator as well.
test_result_plus_one(num_failures, n, true_location) ==
    IF ~num_failures.ok THEN ErrTest(num_failures.error)
    ELSE OkTest(num_failures.value + 1, n + 1, true_location)

\* The tail with the permutation count stored as the index.
test_result_wrong_index(num_failures, n, true_location) ==
    IF ~num_failures.ok THEN ErrTest(num_failures.error)
    ELSE OkTest(num_failures.value, n + 1, n)

\* The tail of permutation_test: p_value and the returned Result.
test_result(num_failures, n, true_location) ==
    IF ~num_failures.ok THEN ErrTest(from_error(num_failures.error))
    ELSE OkTest(num_failures.value, n + 1, true_location)

\* One invocation of do_permutation_iteration on permutations[lo..hi).
Task(lo, hi, st) == [lo |-> lo, hi |-> hi, st |-> st]
\* A slice point that leaves the left half empty.
slice_point_zero(t) == 0

slice_point(t) == (t.hi - t.lo) \div 2
LeftHalf(t) == Task(t.lo, t.lo + slice_point(t), "running")
\* The right half begun one slot late.
RightHalf_late(t) ==
    Task(IF t.lo + slice_point(t) + 1 <= t.hi THEN t.lo + slice_point(t) + 1 ELSE t.hi,
         t.hi, "running")

RightHalf(t) == Task(t.lo + slice_point(t), t.hi, "running")
Done(t) == [t EXCEPT !.st = "done"]

TestIdle ==
    /\ pt_pc = "start" /\ true_candidate = None /\ permutations = <<>>
    /\ rng_draws = 0 /\ scans = <<>> /\ tasks = {} /\ pt_result = None

TestInit ==
    /\ observations \in ObsInputs
    /\ detector \in DetectorsOn(observations)
    /\ num_permutations \in 0..MaxPermutations
    /\ TestIdle

\* permutation_test: the detector on the unpermuted observations, with `?`.
TrueRun ==
    /\ pt_pc = "start"
    /\ LET r == find_candidate(detector, observations)
       IN  IF ~r.ok
           THEN /\ pt_result' = Some(ErrTest(from_error(r.error)))
                /\ pt_pc' = "returned"
                /\ UNCHANGED true_candidate
           ELSE /\ true_candidate' = Some(r.candidate)
                /\ pt_pc' = "shuffle"
                /\ UNCHANGED pt_result
    /\ UNCHANGED <<observations, detector, num_permutations, permutations,
                   rng_draws, scans, tasks>>

\* permutation_test: one turn of the for loop that draws the shuffles.
DrawShuffle ==
    /\ pt_pc = "shuffle"
    /\ Len(permutations) < num_permutations
    /\ \E inner_vec \in PermutationsOf(observations) :
          permutations' = Append(permutations,
                                 [permutation |-> inner_vec, greater_than_truth |-> None])
    /\ rng_draws' = rng_draws + 1
    /\ scans' = Append(scans, 0)
    /\ UNCHANGED <<observations, detector, num_permutations, pt_pc, true_candidate,
                   tasks, pt_result>>

\* The fan-out begun while shuffles are still to be drawn.
CallDoPermutationIteration_early ==
    /\ pt_pc = "shuffle"
    /\ Len(permutations) <= num_permutations
    /\ tasks' = {Task(0, Len(permutations), "running")}
    /\ pt_pc' = "fanout"
    /\ UNCHANGED <<observations, detector, num_permutations, true_candidate,
                   permutations, rng_draws, scans, pt_result>>

\* permutation_test: the loop is over; the call of do_permutation_iteration
\* on the whole vector.
CallDoPermutationIteration ==
    /\ pt_pc = "shuffle"
    /\ Len(permutations) = num_permutations
    /\ tasks' = {Task(0, Len(permutations), "running")}
    /\ pt_pc' = "fanout"
    /\ UNCHANGED <<observations, detector, num_permutations, true_candidate,
                   permutations, rng_draws, scans, pt_result>>

\* A leaf that skips its scan once another slot holds a failure.
LeafTask_cancel(t) ==
    /\ pt_pc = "fanout"
    /\ t.st = "running"
    /\ t.hi - t.lo <= 1
    /\ LET cancelled ==
               \E k \in 1..Len(permutations) :
                   /\ permutations[k].greater_than_truth /= None
                   /\ ~permutations[k].greater_than_truth[1].ok
       IN  /\ permutations' =
                 [k \in 1..Len(permutations) |->
                     IF t.lo < k /\ k <= t.hi /\ ~cancelled
                     THEN [permutations[k] EXCEPT !.greater_than_truth =
                              Some(run_algorithm_on_permutation(
                                       detector, true_candidate[1].statistic,
                                       permutations[k].permutation))]
                     ELSE permutations[k]]
           /\ scans' = [k \in 1..Len(scans) |->
                           IF t.lo < k /\ k <= t.hi /\ ~cancelled
                           THEN scans[k] + 1 ELSE scans[k]]
    /\ tasks' = (tasks \ {t}) \cup {Done(t)}
    /\ UNCHANGED <<observations, detector, num_permutations, pt_pc, true_candidate,
                   rng_draws, pt_result>>

\* do_permutation_iteration on a slice of length <= 1: the inline for loop.
LeafTask(t) ==
    /\ pt_pc = "fanout"
    /\ t.st = "running"
    /\ t.hi - t.lo <= 1
    /\ permutations' =
          [k \in 1..Len(permutations) |->
              IF t.lo < k /\ k <= t.hi
              THEN [permutations[k] EXCEPT !.greater_than_truth =
                       Some(run_algorithm_on_permutation(
                                detector, true_candidate[1].statistic,
                                permutations[k].permutation))]
              ELSE permutations[k]]
    /\ scans' = [k \in 1..Len(scans) |->
                    IF t.lo < k /\ k <= t.hi THEN scans[k] + 1 ELSE scans[k]]
    /\ tasks' = (tasks \ {t}) \cup {Done(t)}
    /\ UNCHANGED <<observations, detector, num_permutations, pt_pc, true_candidate,
                   rng_draws, pt_result>>

\* do_permutation_iteration on a longer slice: split_at_mut and rayon::join
\* start both halves.
ForkTask(t) ==
    /\ pt_pc = "fanout"
    /\ t.st = "running"
    /\ t.hi - t.lo > 1
    /\ tasks' = (tasks \ {t}) \cup {[t EXCEPT !.st = "joining"], LeftHalf(t), RightHalf(t)}
    /\ UNCHANGED <<observations, detector, num_permutations, pt_pc, true_candidate,
                   permutations, rng_draws, scans, pt_result>>

\* rayon::join returns once both halves have returned.
JoinTask(t) ==
    /\ pt_pc = "fanout"
    /\ t.st = "joining"
    /\ Done(LeftHalf(t)) \in tasks
    /\ Done(RightHalf(t)) \in tasks
    /\ tasks' = (tasks \ {t, Done(LeftHalf(t)), Done(RightHalf(t))}) \cup {Done(t)}
    /\ UNCHANGED <<observations, detector, num_permutations, pt_pc, true_candidate,
                   permutations, rng_draws, scans, pt_result>>

\* permutation_test after do_permutation_iteration returned: the fold, the
\* division and the returned Result.
Aggregate ==
    /\ pt_pc = "fanout"
    /\ tasks = {Task(0, Len(permutations), "done")}
    /\ pt_result' = Some(test_result(fold(permutations, OkF(0)), num_permutations,
                                     true_candidate[1].location))
    /\ pt_pc' = "returned"
    /\ tasks' = {}
    /\ UNCHANGED <<observations, detector, num_permutations, true_candidate,
                   permutations, rng_draws, scans>>

\* --------------------------------------------------- BestCandidate order
\* derive(PartialEq, Eq): both fields are equal.
best_candidate_eq(a, b) ==
    /\ a.statistic.num * b.statistic.den = b.statistic.num * a.statistic.den
    /\ a.location = b.location

Statistics == [num : 0..MaxNum, den : 1..MaxDen]
Candidates == [statistic : Statistics, location : 0..MaxLoc]

CmpIdle == cmp_in = <<>> /\ cmp_out = <<>>

CmpInit ==
    /\ cmp_in \in Candidates \X Candidates \X Candidates
    /\ cmp_out = <<>>

\* a.cmp(&b), b.cmp(&a), b.cmp(&c), a.cmp(&c) and a == b.
Compare ==
    /\ cmp_out = <<>>
    /\ cmp_in /= <<>>
    /\ cmp_out' = [ab |-> best_candidate_cmp(cmp_in[1], cmp_in[2]),
                   ba |-> best_candidate_cmp(cmp_in[2], cmp_in[1]),
                   bc |-> best_candidate_cmp(cmp_in[2], cmp_in[3]),
                   ac |-> best_candidate_cmp(cmp_in[1], cmp_in[3]),
                   eq |-> best_candidate_eq(cmp_in[1], cmp_in[2])]
    /\ UNCHANGED cmp_in

\* ------------------------------------------------------ the float type F
\* F is a binary floating-point format with MantissaBits stored mantissa
\* bits and the normal exponents 0..MaxExp. A finite value is a sign and a
\* magnitude counted in units of the smallest subnormal; 1.0 is twice the
\* smallest normal value.
NaN == [kind |-> "nan", neg |-> FALSE, mag |-> 0]
Inf(neg) == [kind |-> "inf", neg |-> neg, mag |-> 0]
Fin(neg, mag) == [kind |-> "fin", neg |-> neg, mag |-> mag]

MinNormalMag == 2 ^ MantissaBits
OneMag == 2 * MinNormalMag
OverMag == MinNormalMag * 2 ^ (MaxExp + 1)
Mags ==
    (0..(MinNormalMag - 1))
    \cup {(MinNormalMag + k) * 2 ^ e : k \in 0..(MinNormalMag - 1), e \in 0..MaxExp}
Floats == {NaN} \cup {Inf(n) : n \in BOOLEAN} \cup {Fin(n, m) : n \in BOOLEAN, m \in Mags}

\* The unit in the last place of a magnitude of the grid.
Ulp(m) ==
    IF m < 2 * MinNormalMag THEN 1
    ELSE 2 ^ (CHOOSE e \in 1..(MaxExp + 1) :
                 MinNormalMag * 2 ^ e <= m /\ m < 2 * MinNormalMag * 2 ^ e)
EvenMantissa(m) == (m \div Ulp(m)) % 2 = 0

\* n / d rounded to the nearest magnitude, ties to the even mantissa; OverMag
\* stands for a result that overflows.
RoundMag(n, d) ==
    IF n >= OverMag * d THEN OverMag
    ELSE LET lo == CHOOSE m \in Mags :
                       m * d <= n /\ \A m2 \in Mags : m2 * d <= n => m2 <= m
             hi == CHOOSE m \in Mags \cup {OverMag} :
                       m * d >= n
                       /\ \A m2 \in Mags \cup {OverMag} : m2 * d >= n => m <= m2
         IN  IF lo = hi THEN lo
             ELSE IF 2 * n < (lo + hi) * d THEN lo
             ELSE IF 2 * n > (lo + hi) * d THEN hi
             ELSE IF EvenMantissa(lo) THEN lo ELSE hi

Rounded(neg, n, d) ==
    IF RoundMag(n, d) = OverMag THEN Inf(neg) ELSE Fin(neg, RoundMag(n, d))

Signed(x) == IF x.neg THEN 0 - x.mag ELSE x.mag
Abs(k) == IF k < 0 THEN 0 - k ELSE k

is_nan(x) == x.kind = "nan"
is_infinite(x) == x.kind = "inf"
is_sign_positive(x) == ~x.neg
max_value == Fin(FALSE, (2 * MinNormalMag - 1) * 2 ^ MaxExp)
min_value == Fin(TRUE, (2 * MinNormalMag - 1) * 2 ^ MaxExp)
min_positive_value == Fin(FALSE, MinNormalMag)
float_one == Fin(FALSE, OneMag)
float_zero == Fin(FALSE, 0)

\* -x
float_neg(x) == IF is_nan(x) THEN NaN ELSE [x EXCEPT !.neg = ~x.neg]

\* x + y
float_add(x, y) ==
    IF is_nan(x) \/ is_nan(y) THEN NaN
    ELSE IF is_infinite(x) /\ is_infinite(y)
         THEN IF x.neg = y.neg THEN x ELSE NaN
    ELSE IF is_infinite(x) THEN x
    ELSE IF is_infinite(y) THEN y
    ELSE LET sum == Signed(x) + Signed(y)
         IN  IF sum = 0 THEN Fin(x.neg /\ y.neg, 0)
             ELSE Rounded(sum < 0, Abs(sum), 1)

\* x * y
float_mul(x, y) ==
    IF is_nan(x) \/ is_nan(y) THEN NaN
    ELSE IF is_infinite(x) \/ is_infinite(y)
         THEN IF (x.kind = "fin" /\ x.mag = 0) \/ (y.kind = "fin" /\ y.mag = 0)
              THEN NaN ELSE Inf(x.neg /= y.neg)
    ELSE Rounded(x.neg /= y.neg, x.mag * y.mag, OneMag)

\* x / y
float_div(x, y) ==
    IF is_nan(x) \/ is_nan(y) THEN NaN
    ELSE IF is_infinite(x)
         THEN IF is_infinite(y) THEN NaN ELSE Inf(x.neg /= y.neg)
    ELSE IF is_infinite(y) THEN Fin(x.neg /= y.neg, 0)
    ELSE IF y.mag = 0
         THEN IF x.mag = 0 THEN NaN ELSE Inf(x.neg /= y.neg)
    ELSE Rounded(x.neg /= y.neg, x.mag * OneMag, y.mag)

\* x % y: the remainder of the truncated division, with the sign of x
float_rem(x, y) ==
    IF is_nan(x) \/ is_nan(y) THEN NaN
    ELSE IF is_infinite(x) THEN NaN
    ELSE IF is_infinite(y) THEN x
    ELSE IF y.mag = 0 THEN NaN
    ELSE Fin(x.neg, x.mag % y.mag)

\* x == y
float_eq(x, y) ==
    /\ ~is_nan(x) /\ ~is_nan(y)
    /\ \/ x = y
       \/ x.kind = "fin" /\ y.kind = "fin" /\ x.mag = 0 /\ y.mag = 0

\* ----------------------------------------------------------------- NonNaN
NonNaN(value) == [value |-> value]
Panicked == [panicked |-> TRUE]

\* A constructor that rejects NaN only.
NonNaN_new_nan_only(value) ==
    IF is_nan(value) THEN None ELSE Some(NonNaN(value))

\* NonNaN::new
NonNaN_new(value) ==
    IF is_nan(value) \/ is_infinite(value) THEN None ELSE Some(NonNaN(value))

\* NonNaN::value
NonNaN_value(self) == self.value

\* clip_to_finite: the expect panics on None.
clip_to_finite(raw_result) ==
    LET wrapped == NonNaN_new(IF is_infinite(raw_result)
                              THEN IF is_sign_positive(raw_result)
                                   THEN max_value ELSE min_value
                              ELSE raw_result)
    IN  IF wrapped = None THEN Panicked ELSE wrapped[1]

\* A divisor passed on as it is.
as_divisor_unchanged(candidate) == candidate

\* as_divisor
as_divisor(candidate) ==
    IF float_eq(candidate, float_zero)
    THEN float_mul(min_positive_value,
                   IF is_sign_positive(candidate) THEN float_one
                   ELSE float_neg(float_one))
    ELSE candidate

\* Add for NonNaN
NonNaN_add(self, other) == clip_to_finite(float_add(self.value, other.value))

\* Sub for NonNaN
NonNaN_sub(self, other) ==
    LET negated_other == NonNaN_new(float_neg(other.value))
    IN  IF negated_other = None THEN Panicked
        ELSE NonNaN_add(self, negated_other[1])

\* Mul for NonNaN
NonNaN_mul(self, other) == clip_to_finite(float_mul(self.value, other.value))

\* Div for NonNaN
NonNaN_div(self, other) ==
    clip_to_finite(float_div(self.value, as_divisor(other.value)))

\* Rem for NonNaN
NonNaN_rem(self, other) ==
    clip_to_finite(float_rem(self.value, as_divisor(other.value)))

FloatIdle ==
    /\ float_raw = <<>>
    /\ non_nan = <<>>
    /\ float_pc = "idle"
    /\ float_op = "none"
    /\ float_out = <<>>

FloatInit ==
    /\ float_raw \in Floats \X Floats
    /\ non_nan = <<>>
    /\ float_pc = "start"
    /\ float_op = "none"
    /\ float_out = <<>>

\* NonNaN::new on each of the two raw values.
New ==
    /\ float_pc = "start"
    /\ non_nan' = <<NonNaN_new(float_raw[1]), NonNaN_new(float_raw[2])>>
    /\ float_pc' = "wrapped"
    /\ UNCHANGED <<float_raw, float_op, float_out>>

\* One operator applied to the two NonNaN values.
Arith(op, out) ==
    /\ float_pc = "wrapped"
    /\ non_nan[1] /= None
    /\ non_nan[2] /= None
    /\ float_op' = op
    /\ float_out' = out
    /\ float_pc' = "done"
    /\ UNCHANGED <<float_raw, non_nan>>

Add == Arith("+", NonNaN_add(non_nan[1][1], non_nan[2][1]))
Sub == Arith("-", NonNaN_sub(non_nan[1][1], non_nan[2][1]))
Mul == Arith("*", NonNaN_mul(non_nan[1][1], non_nan[2][1]))
Div == Arith("/", NonNaN_div(non_nan[1][1], non_nan[2][1]))
Rem == Arith("%", NonNaN_rem(non_nan[1][1], non_nan[2][1]))

\* --------------------------------------------------------- specifications
HeapInit == HeapIdle /\ ScanIdle /\ z = <<>> /\ delta = 1
            /\ TestIdle /\ observations = <<>> /\ detector = <<>> /\ num_permutations = 0
            /\ CmpIdle /\ FloatIdle
HeapNext == Push /\ UNCHANGED <<scan_vars, pt_vars, cmp_vars, float_vars>>
HeapSpec == HeapInit /\ [][HeapNext]_vars

ScanSpecInit == ScanInit /\ HeapIdle
                /\ TestIdle /\ observations = <<>> /\ detector = <<>> /\ num_permutations = 0
                /\ CmpIdle /\ FloatIdle
ScanNext ==
    /\ \/ FindCandidate
       \/ OuterStep
       \/ InnerStep
       \/ InnerReturn
       \/ OuterReturn
    /\ UNCHANGED <<heap_vars, pt_vars, cmp_vars, float_vars>>
ScanSpec == ScanSpecInit /\ [][ScanNext]_vars

Init == TestInit /\ HeapIdle /\ ScanIdle /\ z = <<>> /\ delta = 1
        /\ CmpIdle /\ FloatIdle
Next ==
    /\ \/ TrueRun
       \/ DrawShuffle
       \/ CallDoPermutationIteration
       \/ \E t \in tasks : LeafTask(t)
       \/ \E t \in tasks : ForkTask(t)
       \/ \E t \in tasks : JoinTask(t)
       \/ Aggregate
    /\ UNCHANGED <<heap_vars, scan_vars, cmp_vars, float_vars>>
Spec == Init /\ [][Next]_vars

\* permutation_test on the two-element observations; the calling thread
\* and rayon's workers run whatever step is ready.
LiveInit == Init /\ observations = <<2, 4>>
LiveSpec == LiveInit /\ [][Next]_vars /\ WF_vars(Next)

OthersIdle ==
    /\ HeapIdle /\ ScanIdle /\ z = <<>> /\ delta = 1
    /\ TestIdle /\ observations = <<>> /\ detector = <<>> /\ num_permutations = 0

CmpSpecInit == CmpInit /\ FloatIdle /\ OthersIdle
CmpNext == Compare /\ UNCHANGED <<heap_vars, scan_vars, pt_vars, float_vars>>
CmpSpec == CmpSpecInit /\ [][CmpNext]_vars

FloatSpecInit == FloatInit /\ CmpIdle /\ OthersIdle
FloatNext ==
    /\ \/ New
       \/ Add
       \/ Sub
       \/ Mul
       \/ Div
       \/ Rem
    /\ UNCHANGED <<heap_vars, scan_vars, pt_vars, cmp_vars>>
FloatSpec == FloatSpecInit /\ [][FloatNext]_vars

\* ----------------------------------------------------------------- claims
\* The detector's outcome on the unpermuted observations and on shuffle k.
TrueOutcome == detector[observations]
ShuffleOutcome(k) == detector[permutations[k].permutation]
FailedShuffles == {k \in 1..Len(permutations) : ~ShuffleOutcome(k).ok}
Returned == pt_pc = "returned"

\* C1 (HeapSpec): after each push, get_median equals the sort-based median of
\* all the values pushed so far.
C1_MedianOfPushed ==
    pushed /= <<>> =>
        /\ ~get_median_panics(heaps)
        /\ get_median(heaps) = ReferenceMedian(pushed)

\* C2 (ScanSpec): with delta >= 1 and n >= 2*delta, find_candidate never
\* panics and what it returns is Ok.
C2_EnoughValuesReturnsOk ==
    (delta >= 1 /\ Len(z) >= 2 * delta) =>
        /\ pc /= "panicked"
        /\ pc = "returned" => result[1].ok

\* C3 (ScanSpec): with n < 2*delta, find_candidate returns the error
\* NotEnoughValues carrying (n, delta); no heap is ever created or pushed to
\* and no step of the scan runs.
C3_NotEnoughValues ==
    Len(z) < 2 * delta =>
        /\ pc \in {"start", "returned"}
        /\ left_heaps = None /\ right_heaps = None
        /\ i = 0 /\ jmi = 0 /\ inner_max = None /\ outer_max = None
        /\ pc = "returned" =>
              result = Some([ok |-> FALSE,
                             error |-> [kind |-> "NotEnoughValues",
                                        collection_len |-> Len(z),
                                        delta |-> delta]])

C3_Witness == pc = "returned" /\ Len(z) < 2 * delta /\ Len(z) >= delta

\* C4 (Spec): every returned Ok result has 0 < p_value <= 1.
C4_PValueInHalfOpenInterval ==
    (Returned /\ pt_result[1].ok) =>
        /\ pt_result[1].p_value.num > 0
        /\ pt_result[1].p_value.num <= pt_result[1].p_value.den

\* C5 (Spec): with num_permutations = 0 and a detector that succeeds on the
\* observations, no shuffle is drawn, no permutation is scanned, and the
\* result is Ok with p_value = 0/1 = 0.
C5_ZeroPermutations ==
    (num_permutations = 0 /\ TrueOutcome.ok) =>
        /\ rng_draws = 0 /\ permutations = <<>> /\ scans = <<>>
        /\ Returned =>
              /\ pt_result[1].ok
              /\ pt_result[1].p_value = [num |-> 0, den |-> 1]

C5_Witness == Returned /\ num_permutations = 0 /\ pt_result[1].ok

\* C6 (Spec): when every detector call succeeds, p_value = K / (N + 1) with
\* K the number of shuffles whose statistic is strictly greater than the
\* true statistic; a tie counts 0.
C6_PValueIsStrictlyGreaterCount ==
    (Returned /\ TrueOutcome.ok /\ FailedShuffles = {}) =>
        /\ pt_result[1].ok
        /\ pt_result[1].p_value.num =
              Cardinality({k \in 1..Len(permutations) :
                  ShuffleOutcome(k).candidate.statistic > TrueOutcome.candidate.statistic})
        /\ pt_result[1].p_value.den = num_permutations + 1
        /\ Len(permutations) = num_permutations

C6_Witness ==
    /\ Returned /\ TrueOutcome.ok /\ FailedShuffles = {}
    /\ Len(permutations) >= 3
    /\ pt_result[1].p_value.num = 1
    /\ \E k1, k2 \in 1..Len(permutations) :
          /\ ShuffleOutcome(k1).candidate.statistic = TrueOutcome.candidate.statistic
          /\ ShuffleOutcome(k2).candidate.statistic > TrueOutcome.candidate.statistic

\* C7 (Spec): if the detector failed on any one permutation, the test
\* returns Err, wherever the failing permutation stands and however many
\* others succeeded.
C7_AnyFailureIsErr ==
    (Returned /\ FailedShuffles /= {}) => ~pt_result[1].ok

C7_Witness ==
    /\ Returned
    /\ Cardinality(FailedShuffles) = 1
    /\ Len(permutations) >= 3
    /\ Len(permutations) \in FailedShuffles

\* C8 (Spec): if the detector fails on the unpermuted observations, the
\* test returns that same error, with no shuffle drawn and no permutation
\* scanned before.
C8_TrueRunErrorUnchanged ==
    ~TrueOutcome.ok =>
        /\ rng_draws = 0 /\ permutations = <<>> /\ scans = <<>> /\ tasks = {}
        /\ true_candidate = None
        /\ pt_pc \in {"start", "returned"}
        /\ Returned =>
              /\ ~pt_result[1].ok
              /\ pt_result[1].error = TrueOutcome.error

C8_Witness == Returned /\ ~TrueOutcome.ok /\ num_permutations > 0

\* C9 (Spec), as stated: a failure of the detector on a permutation is
\* returned as a PermutationScanFailed error wrapping the detector's error.
C9_WrappedScanError ==
    (Returned /\ FailedShuffles /= {}) =>
        /\ ~pt_result[1].ok
        /\ pt_result[1].error.kind = "PermutationScanFailed"
        /\ pt_result[1].error.cause \in {ShuffleOutcome(k).error.kind : k \in FailedShuffles}

\* C9 (Spec), amended: a failure of the detector on a permutation is returned
\* as the detector's own error, unwrapped: the error of the first failing
\* permutation in list order.
C9_FirstScanErrorBare ==
    (Returned /\ FailedShuffles /= {}) =>
        /\ ~pt_result[1].ok
        /\ \E k \in FailedShuffles :
              /\ \A l \in FailedShuffles : k <= l
              /\ pt_result[1].error = ShuffleOutcome(k).error

C9_Witness ==
    /\ Returned
    /\ \E k, l \in FailedShuffles :
          /\ k < l
          /\ ShuffleOutcome(k).error /= ShuffleOutcome(l).error
          /\ pt_result[1].error = ShuffleOutcome(k).error
    /\ 1 \notin FailedShuffles

\* C10 (Spec): whenever the test returns Ok, changepoint_index is the
\* location found on the unpermuted observations, whatever the shuffles and
\* their scans gave.
C10_IndexIsTrueLocation ==
    (Returned /\ pt_result[1].ok) =>
        pt_result[1].changepoint_index = TrueOutcome.candidate.location

C10_Witness ==
    /\ Returned /\ pt_result[1].ok
    /\ pt_result[1].changepoint_index = 1
    /\ Len(permutations) >= 2
    /\ \A k \in 1..Len(permutations) : ShuffleOutcome(k).candidate.location /= 1

\* The scan's pairs, from the bounds of the two iterators: i is an outer
\* boundary, j an inner index with j - i >= delta.
OuterIndices == delta..(Len(z) - delta - 1)
InnerIndices(ii) == (ii + delta)..(Len(z) - 1)

RECURSIVE HeapsAfter(_)
\* A fresh Heaps after add_to_heaps of each element of s, in order.
HeapsAfter(s) ==
    IF s = <<>> THEN HeapsNew
    ELSE add_to_heaps(HeapsAfter(SubSeq(s, 1, Len(s) - 1)), s[Len(s)])

\* The statistic of the pair (ii, j): the left pair holds z[0..=ii], the
\* right pair z[ii..=j].
StatisticAt(ii, j) ==
    candidate_at(get_median(HeapsAfter(SubSeq(z, 1, ii + 1))),
                 get_median(HeapsAfter(SubSeq(z, ii + 1, j + 1))), ii, j).statistic

\* The outer boundary ii attains the maximal statistic of the scan.
AttainsMaximum(ii) ==
    \E j \in InnerIndices(ii) :
        \A i2 \in OuterIndices : \A j2 \in InnerIndices(i2) :
            StatCmp(StatisticAt(i2, j2), StatisticAt(ii, j)) <= 0

ScanOk == pc = "returned" /\ result[1].ok

\* C11 (ScanSpec): when several outer boundaries attain the maximal
\* statistic, the returned location is the smallest of them.
C11_SmallestBoundaryWinsTie ==
    ScanOk =>
        /\ result[1].candidate.location \in OuterIndices
        /\ AttainsMaximum(result[1].candidate.location)
        /\ \A ii \in OuterIndices :
              AttainsMaximum(ii) => result[1].candidate.location <= ii

C11_Witness ==
    /\ ScanOk
    /\ result[1].candidate.statistic.num > 0
    /\ \E ii \in OuterIndices :
          AttainsMaximum(ii) /\ result[1].candidate.location < ii

\* C13 (ScanSpec): the location of a successful scan is an outer boundary,
\* delta <= location < n - delta, and the returned statistic is the one of a
\* pair whose outer index is that location; an inner index is never stored.
C13_LocationIsOuterBoundary ==
    ScanOk =>
        /\ delta <= result[1].candidate.location
        /\ result[1].candidate.location < Len(z) - delta
        /\ \E j \in InnerIndices(result[1].candidate.location) :
              StatCmp(StatisticAt(result[1].candidate.location, j),
                      result[1].candidate.statistic) = 0

C13_Witness ==
    /\ ScanOk
    /\ result[1].candidate.location > delta
    /\ result[1].candidate.location = Len(z) - delta - 1

\* C19 (HeapSpec): after every add_to_heaps on a pair that started empty the
\* sizes of the heaps differ by at most one and heap_size_info names their
\* relation exactly; it is Empty iff nothing was pushed.
C19_SizeInfoMatchesSizes ==
    LET nmin == Len(heaps.min_heap)
        nmax == Len(heaps.max_heap)
    IN  /\ nmin - nmax \in {-1, 0, 1}
        /\ heaps.heap_size_info = "EqualSizes" <=> (nmin = nmax /\ nmin > 0)
        /\ heaps.heap_size_info = "MinHeapBigger" <=> nmin = nmax + 1
        /\ heaps.heap_size_info = "MaxHeapBigger" <=> nmax = nmin + 1
        /\ heaps.heap_size_info = "Empty" <=> pushed = <<>>

C19_Witness ==
    /\ Len(pushed) >= 4
    /\ heaps.heap_size_info = "EqualSizes"
    /\ Len(heaps.min_heap) >= 3

\* C20 (HeapSpec): after every add_to_heaps every element of max_heap, the
\* lower half, is <= every element of min_heap, the upper half; so is top
\* to top.
C20_LowerHalfBelowUpperHalf ==
    /\ \A a \in 1..Len(heaps.max_heap) : \A b \in 1..Len(heaps.min_heap) :
          heaps.max_heap[a] <= heaps.min_heap[b]
    /\ pushed /= <<>> => MaxHeapPeek(heaps.max_heap) <= MinHeapPeek(heaps.min_heap)

C20_Witness ==
    /\ Len(pushed) >= 4
    /\ Len(heaps.max_heap) >= 3
    /\ MaxHeapPeek(heaps.max_heap) < MinHeapPeek(heaps.min_heap)
    /\ heaps.max_heap[1] < MaxHeapPeek(heaps.max_heap)

Slots == 1..Len(permutations)

\* p holds the elements of obs, each as often as obs does.
Reordering(p, obs) ==
    /\ Len(p) = Len(obs)
    /\ \A v \in {obs[n] : n \in 1..Len(obs)} \cup {p[n] : n \in 1..Len(p)} :
          Cardinality({n \in 1..Len(p) : p[n] = v})
              = Cardinality({n \in 1..Len(obs) : obs[n] = v})

\* C14 (Spec): the shuffles are drawn one after another, each a reordering
\* of the observations, and all num_permutations of them are drawn before
\* the fan-out begins; while any task exists, and ever after, the random
\* source is not accessed again.
C14_ShufflesDrawnBeforeFanOut ==
    /\ rng_draws = Len(permutations)
    /\ rng_draws <= num_permutations
    /\ \A k \in Slots : Reordering(permutations[k].permutation, observations)
    /\ pt_pc = "shuffle" =>
          /\ tasks = {}
          /\ \A k \in Slots : scans[k] = 0 /\ permutations[k].greater_than_truth = None
    /\ (pt_pc = "fanout" \/ tasks /= {} \/ \E k \in Slots : scans[k] > 0) =>
          rng_draws = num_permutations
    /\ (Returned /\ TrueOutcome.ok) => rng_draws = num_permutations

C14_Witness ==
    /\ pt_pc = "fanout"
    /\ rng_draws >= 3
    /\ \E k \in Slots : scans[k] > 0
    /\ \E k \in Slots : scans[k] = 0

\* C15 (Spec): do_permutation_iteration returns only when every half has
\* been joined; by then each slot was scanned exactly once, no slot is ever
\* scanned twice or held by two running tasks, and the fold never meets an
\* unset result: PermutationNeverRan is not returned.
C15_EverySlotScannedOnce ==
    /\ \A k \in Slots :
          /\ scans[k] <= 1
          /\ scans[k] = 1 <=> permutations[k].greater_than_truth /= None
    /\ \A t1, t2 \in tasks :
          (t1 /= t2 /\ t1.st = "running" /\ t2.st = "running") =>
              (t1.hi <= t2.lo \/ t2.hi <= t1.lo)
    /\ \A t \in tasks :
          t.st = "done" => \A k \in Slots : (t.lo < k /\ k <= t.hi) => scans[k] = 1
    /\ Task(0, Len(permutations), "done") \in tasks =>
          /\ tasks = {Task(0, Len(permutations), "done")}
          /\ \A k \in Slots : scans[k] = 1
    /\ (Returned /\ TrueOutcome.ok) =>
          /\ tasks = {}
          /\ Len(permutations) = num_permutations
          /\ \A k \in Slots : scans[k] = 1
          /\ pt_result[1].error.kind /= "PermutationNeverRan"

C15_Witness ==
    /\ Returned /\ TrueOutcome.ok
    /\ Len(permutations) >= 3
    /\ \A k \in Slots : scans[k] = 1

\* What the detector, the observations and the list of shuffles determine.
FirstFailedShuffle == CHOOSE k \in FailedShuffles : \A l \in FailedShuffles : k <= l
DeterminedResult ==
    IF ~TrueOutcome.ok THEN ErrTest(TrueOutcome.error)
    ELSE IF FailedShuffles /= {} THEN ErrTest(ShuffleOutcome(FirstFailedShuffle).error)
    ELSE OkTest(Cardinality({k \in Slots :
                    ShuffleOutcome(k).candidate.statistic
                        > TrueOutcome.candidate.statistic}),
                num_permutations + 1, TrueOutcome.candidate.location)

\* C16 (Spec): the returned Result is determined by the detector, the
\* observations and the list of shuffles: it is the same whatever the order
\* in which the scan tasks ran and completed.
C16_ResultIndependentOfInterleaving ==
    Returned => pt_result = Some(DeterminedResult)

C16_Witness ==
    /\ Returned /\ TrueOutcome.ok
    /\ Len(permutations) >= 3
    /\ Cardinality(FailedShuffles) >= 2
    /\ 1 \notin FailedShuffles

StatLess(a, b) == a.statistic.num * b.statistic.den < b.statistic.num * a.statistic.den
StatEqual(a, b) == a.statistic.num * b.statistic.den = b.statistic.num * a.statistic.den

\* C12 (CmpSpec): BestCandidate's cmp is a total order: a.cmp(b) is the
\* reverse of b.cmp(a), it is transitive, the smaller statistic is the
\* lesser, on equal statistics the smaller location is the greater, and cmp
\* is Equal exactly when statistic and location are both equal, which is
\* when == holds.
C12_BestCandidateTotalOrder ==
    cmp_out /= <<>> =>
        LET a == cmp_in[1]
            b == cmp_in[2]
        IN  /\ cmp_out.ab \in {-1, 0, 1}
            /\ cmp_out.ba = 0 - cmp_out.ab
            /\ (cmp_out.ab <= 0 /\ cmp_out.bc <= 0) => cmp_out.ac <= 0
            /\ (cmp_out.ab < 0 /\ cmp_out.bc <= 0) => cmp_out.ac < 0
            /\ (cmp_out.ab <= 0 /\ cmp_out.bc < 0) => cmp_out.ac < 0
            /\ StatLess(a, b) => cmp_out.ab = -1
            /\ StatLess(b, a) => cmp_out.ab = 1
            /\ (StatEqual(a, b) /\ a.location < b.location) => cmp_out.ab = 1
            /\ (StatEqual(a, b) /\ a.location > b.location) => cmp_out.ab = -1
            /\ cmp_out.ab = 0 <=> (StatEqual(a, b) /\ a.location = b.location)
            /\ cmp_out.ab = 0 <=> cmp_out.eq

C12_Witness ==
    /\ cmp_out /= <<>>
    /\ StatEqual(cmp_in[1], cmp_in[2])
    /\ cmp_in[1].statistic /= cmp_in[2].statistic
    /\ cmp_in[1].location < cmp_in[2].location
    /\ cmp_out.ab = 1
    /\ cmp_out.bc = 1
    /\ cmp_out.ac = 1

\* C17 (FloatSpec): NonNaN::new(raw) is None exactly when raw is NaN,
\* +Infinity or -Infinity; otherwise it is Some of a NonNaN that wraps raw
\* itself, and value() gives raw back.
C17_NewRejectsNaNAndInfinite ==
    float_pc \in {"wrapped", "done"} =>
        \A k \in 1..2 :
            /\ non_nan[k] = None <=> float_raw[k].kind \in {"nan", "inf"}
            /\ non_nan[k] /= None =>
                  /\ non_nan[k] = Some(NonNaN(float_raw[k]))
                  /\ NonNaN_value(non_nan[k][1]) = float_raw[k]

C17_Witness ==
    /\ float_pc = "wrapped"
    /\ float_raw[1] = Inf(TRUE)
    /\ non_nan[1] = None
    /\ float_raw[2] = Fin(TRUE, 0)
    /\ non_nan[2] /= None

\* The raw result of the operator on x and the divisor or second operand y.
RawResult(op, x, y) ==
    CASE op = "+" -> float_add(x, y)
      [] op = "-" -> float_add(x, float_neg(y))
      [] op = "*" -> float_mul(x, y)
      [] op = "/" -> float_div(x, y)
      [] op = "%" -> float_rem(x, y)

\* The second operand, a zero divisor replaced by the magnitude mag with the
\* divisor's sign.
SecondOperand(op, y, mag) ==
    IF op \in {"/", "%"} /\ y.mag = 0 THEN Fin(y.neg, mag) ELSE y

\* The operator returned a finite NonNaN: the raw result on the second
\* operand, a zero divisor replaced by mag, clipped when it overflowed.
FiniteClipped(mag) ==
    LET raw == RawResult(float_op, non_nan[1][1].value,
                         SecondOperand(float_op, non_nan[2][1].value, mag))
    IN  /\ float_out /= Panicked
        /\ float_out.value.kind = "fin"
        /\ raw.kind /= "nan"
        /\ raw.kind = "inf" =>
              float_out.value = IF raw.neg THEN min_value ELSE max_value
        /\ raw.kind = "fin" => float_out.value = raw

SmallestPositiveMag == CHOOSE m \in Mags \ {0} : \A m2 \in Mags \ {0} : m <= m2

\* C18 as stated (FloatSpec): each of + - * / % on two NonNaN values
\* returns a finite NonNaN without panicking, an overflowing raw result
\* replaced by the maximal or minimal finite value of its sign, a zero
\* divisor replaced by the smallest positive magnitude with the divisor's
\* sign.
C18_ZeroDivisorSmallestMagnitude ==
    float_pc = "done" => FiniteClipped(SmallestPositiveMag)

\* C18 amended (FloatSpec): the same, the zero divisor replaced by
\* min_positive_value, the smallest positive normal value, with the
\* divisor's sign; subnormal values are smaller.
C18_ZeroDivisorMinPositiveValue ==
    float_pc = "done" => FiniteClipped(min_positive_value.mag)

C18_Witness ==
    /\ float_pc = "done"
    /\ float_op = "/"
    /\ non_nan[1][1].value = max_value
    /\ non_nan[2][1].value = Fin(TRUE, 0)
    /\ float_out.value = min_value

\* The heap pair the next step of the scan pushes to, after the push.
NextLeftHeaps == add_to_heaps(left_heaps[1], z[i + 1])
NextRightHeaps == add_to_heaps(right_heaps[1], z[i + jmi + 1])

\* C21 (ScanSpec): no step of a scan executes a loud-failure arm of the
\* heap pair: add_to_heaps never ends in push_to_heap's catch-all or "a
\* value was just pushed" arms, get_median is never called on an Empty
\* pair, and a scan that failed loudly did so in the expect after max(),
\* with the iterator exhausted and no candidate.
C21_LoudFailureArmsNeverExecuted ==
    /\ (pc = "outer" /\ i < Len(z) - delta) =>
          /\ NextLeftHeaps.heap_size_info /= "Panicked"
          /\ i >= delta => /\ NextLeftHeaps.heap_size_info /= "Empty"
                           /\ ~get_median_panics(NextLeftHeaps)
    /\ (pc = "inner" /\ jmi < Len(z) - i) =>
          /\ NextRightHeaps.heap_size_info /= "Panicked"
          /\ jmi >= delta => /\ NextRightHeaps.heap_size_info /= "Empty"
                             /\ ~get_median_panics(NextRightHeaps)
    /\ pc = "panicked" =>
          \/ right_heaps /= None /\ jmi = Len(z) - i /\ inner_max = None
          \/ right_heaps = None /\ i = Len(z) - delta /\ outer_max = None
    /\ left_heaps /= None => left_heaps[1].heap_size_info /= "Panicked"
    /\ right_heaps /= None => right_heaps[1].heap_size_info /= "Panicked"

C21_Witness ==
    /\ pc = "inner"
    /\ jmi >= delta
    /\ jmi < Len(z) - i
    /\ right_heaps[1].heap_size_info = "MinHeapBigger"
    /\ z[i + jmi + 1] > MinHeapPeek(right_heaps[1].min_heap)
    /\ left_heaps[1].heap_size_info = "MaxHeapBigger"

\* The pushed values with the first one counted twice.
PushedWithFirstTwice == <<pushed[1]>> \o pushed

\* C22 (HeapSpec): after k >= 1 add_to_heaps calls the two heaps hold k+1
\* elements, the pushed values with the first one twice, and get_median is
\* the median of these k+1 values: the middle one for an odd count, the
\* average of the two middle ones for an even count.
C22_MedianWithFirstCountedTwice ==
    pushed /= <<>> =>
        /\ Len(heaps.min_heap) + Len(heaps.max_heap) = Len(pushed) + 1
        /\ Sorted(heaps.min_heap \o heaps.max_heap) = Sorted(PushedWithFirstTwice)
        /\ ~get_median_panics(heaps)
        /\ get_median(heaps) = ReferenceMedian(PushedWithFirstTwice)

C22_Witness ==
    /\ Len(pushed) >= 4
    /\ heaps.heap_size_info = "EqualSizes"
    /\ MaxHeapPeek(heaps.max_heap) < MinHeapPeek(heaps.min_heap)
    /\ get_median(heaps) /= ReferenceMedian(pushed)

\* All i in [delta, n - delta - 1] with all j in [i + delta, n - 1].
AllPairs == {<<a, b>> \in (0..Len(z)) \X (0..Len(z)) :
                a \in OuterIndices /\ b \in InnerIndices(a)}

\* C23 (ScanSpec): every (i, j) for which the scan builds a candidate has
\* delta <= i and i + delta <= j <= n - 1, so i >= 1, j >= 2, the divisor j
\* of the weight is not zero and the weight i*(j-i)/j is positive; when the
\* scan has ended the pairs scored are all i in [delta, n-delta-1] with all
\* j in [i+delta, n-1], and no others.
C23_ScoredPairsWithinBounds ==
    /\ \A p \in scored :
          /\ delta <= p[1]
          /\ p[1] + delta <= p[2]
          /\ p[2] <= Len(z) - 1
          /\ p[1] >= 1
          /\ p[2] >= 2
          /\ p[2] /= 0
          /\ p[1] * (p[2] - p[1]) > 0
    /\ scored \subseteq AllPairs
    /\ pc \in {"returned", "panicked"} => scored = AllPairs

C23_Witness ==
    /\ ScanOk
    /\ delta = 1
    /\ Cardinality(scored) >= 6

\* C24 (ScanSpec): the statistic edm_x returns is the maximum over all outer
\* boundaries i and inner indices j with j - i >= delta of
\* i*(j-i)/j * (left_median(i) - right_median(i,j))^2, where left_median(i)
\* is the median of one pair after the pushes of z[0..=i] and
\* right_median(i,j) that of a pair created for this i after the pushes of
\* z[i..=j]; the right pair of one i holds nothing of an earlier i.
C24_StatisticIsMaximumOverPairs ==
    /\ pc = "inner" =>
          /\ left_heaps[1] = HeapsAfter(SubSeq(z, 1, i + 1))
          /\ left_median = get_median(left_heaps[1])
          /\ right_heaps[1] = HeapsAfter(SubSeq(z, i + 1, i + jmi))
    /\ ScanOk =>
          /\ \E p \in AllPairs :
                StatCmp(StatisticAt(p[1], p[2]), result[1].candidate.statistic) = 0
          /\ \A p \in AllPairs :
                StatCmp(StatisticAt(p[1], p[2]), result[1].candidate.statistic) <= 0

C24_Witness ==
    /\ ScanOk
    /\ Cardinality(AllPairs) >= 6
    /\ result[1].candidate.location > delta
    /\ \E p \in AllPairs :
          StatCmp(StatisticAt(p[1], p[2]), result[1].candidate.statistic) < 0
             /\ StatisticAt(p[1], p[2]).num > 0
    /\ \A j \in InnerIndices(result[1].candidate.location) :
          StatCmp(StatisticAt(result[1].candidate.location, j),
                  result[1].candidate.statistic) = 0
              => j > result[1].candidate.location + delta

\* The pair after the push of v as the HeapItem chosen by comparing v with top.
PushedByTop(v, top) ==
    push_to_heap(heaps, IF v <= top THEN "MaxHeap" ELSE "MinHeap", v)

\* C25 as stated (HeapSpec): on every push after the first the new value
\* is compared with the top of max_heap, the largest element of the lower
\* half: a value <= that top is inserted into max_heap, a greater one into
\* min_heap.
C25_ComparedWithLowerHalfTop ==
    [][(pushed /= <<>> /\ pushed' /= pushed) =>
          heaps' = PushedByTop(pushed'[Len(pushed')], MaxHeapPeek(heaps.max_heap))]_vars

\* C25 amended (HeapSpec): on every push after the first the new value is
\* compared with the top of min_heap, the smallest element of the upper
\* half: a value <= that top is inserted into max_heap, a greater one into
\* min_heap.
C25_ComparedWithUpperHalfTop ==
    [][(pushed /= <<>> /\ pushed' /= pushed) =>
          heaps' = PushedByTop(pushed'[Len(pushed')], MinHeapPeek(heaps.min_heap))]_vars

\* The last value pushed was above the lower half's top, not above the upper
\* half's, and is in max_heap.
C25_Witness ==
    /\ Len(pushed) >= 4
    /\ heaps.heap_size_info = "MaxHeapBigger"
    /\ MaxHeapPeek(heaps.max_heap) = pushed[Len(pushed)]
    /\ heaps.max_heap[Len(heaps.max_heap) - 1] < pushed[Len(pushed)]
    /\ pushed[Len(pushed)] = MinHeapPeek(heaps.min_heap)

\* Every slice of length >= 2 is split into two non-empty, strictly shorter
\* halves that make it up.
HalvesShorter ==
    \A t \in tasks :
        t.hi - t.lo >= 2 =>
            /\ LeftHalf(t).lo = t.lo
            /\ LeftHalf(t).hi = RightHalf(t).lo
            /\ RightHalf(t).hi = t.hi
            /\ LeftHalf(t).hi - LeftHalf(t).lo >= 1
            /\ RightHalf(t).hi - RightHalf(t).lo >= 1
            /\ LeftHalf(t).hi - LeftHalf(t).lo < t.hi - t.lo
            /\ RightHalf(t).hi - RightHalf(t).lo < t.hi - t.lo

\* C26 (LiveSpec): with every detector call terminating, the fan-out of
\* do_permutation_iteration terminates for every number of permutations:
\* a slice of length >= 2 is split into two non-empty, strictly shorter
\* halves, a slice of length <= 1 is processed inline, and permutation_test
\* eventually returns a Result.
C26_FanOutTerminates ==
    /\ [](HalvesShorter /\ \A t \in tasks : t.lo <= t.hi)
    /\ <>(Returned /\ pt_result /= None /\ tasks = {})

C26_Witness ==
    /\ Returned
    /\ num_permutations >= 3
    /\ pt_result[1].ok
    /\ tasks = {}
    /\ rng_draws = num_permutations

====
